---- MODULE Spec2Model ----
(***************************************************************************)
(* A model of py_everything's index engine: the SQLite store of            *)
(* core/indexer.py (tables files, files_fts, indexed_paths and the three   *)
(* triggers), the scanner of core/scanner.py, the watch-event handlers of  *)
(* core/watcher.py and the ScanningWorker slots of ui/main_window.py.      *)
(*                                                                         *)
(* Paths and names are sequences of one-character strings, so that the     *)
(* string operations of the code (LIKE 'root%', os.path.join,              *)
(* os.path.basename, the FTS5 tokenizer) are computed as the code computes *)
(* them.  mtimes are whole seconds.                                        *)
(***************************************************************************)
EXTENDS Integers, Sequences, FiniteSets, TLC

VARIABLES
    files,          \* rows of table files: [id, path, name, type, size, mtime]
    fts,            \* the FTS5 index files_fts: pairs <<rowid, token>>
    indexed_paths,  \* rows of table indexed_paths (the path column)
    fs,             \* the live filesystem: path -> [ex, mtime, size]
    statFail,       \* paths on which os.stat currently raises OSError
    searcher,       \* SearchWorker.indexer has been created
    pending,        \* the sync_changes call in progress: where it is, what it read
    events,         \* the watch events queued for the handler, oldest first
    op              \* the last operation run, what it computed and reported

vars == <<files, fts, indexed_paths, fs, statFail, searcher, pending, events, op>>

----------------------------------------------------------------------------
(* Bounds of the model. *)

MaxId == 4          \* rowids handed out by SQLite are capped here
MaxMtime == 2       \* mtimes range over 0..MaxMtime seconds
MaxWatchId == 3     \* the tighter cap on rowids where watch events run
MaxLimit == 2       \* search limits range over 0..MaxLimit
MaxEvents == 2      \* watch events queued at a time

----------------------------------------------------------------------------
(* The universe of filesystem paths. *)

D   == <<"/", "d">>
DA  == <<"/", "d", "/", "n", ".", "t">>
D2  == <<"/", "d", "2">>
D2A == <<"/", "d", "2", "/", "n", ".", "t">>
DM  == <<"/", "d", "/", "m", ".", "t">>     \* the name DA is renamed to
DS  == <<"/", "d", "/", "s">>               \* a directory inside D

PathOrder == <<D, DS, DA, DM, D2, D2A>>  \* the order directory listings come in
Paths     == {PathOrder[i] : i \in 1..Len(PathOrder)}
Dirs      == {D, DS, D2}
Roots     == {D, D2}                 \* the directories a user registers
Mtimes    == 0..MaxMtime
FileSizes == {120}
DirStSize == {4096}                  \* st_size the OS reports for a directory
None      == <<>>                    \* Python's None for an omitted path
Mutable   == {D, DA}                 \* the entries the environment changes
WatchRoots == {D}                    \* the root whose subtree that is
Renamed   == {DA, DM}                \* the two names of the file that is renamed
Nested    == {DS, DA}                \* the directory and the file inside D
Walked    == {DS, DA, DM}            \* the entries a walk of D can meet

----------------------------------------------------------------------------
(* String helpers: os.path.basename, os.path.join, str.startswith. *)

RECURSIVE LastSlash(_)
LastSlash(p) ==
    IF p = <<>> THEN 0
    ELSE IF p[Len(p)] = "/" THEN Len(p)
    ELSE LastSlash(SubSeq(p, 1, Len(p) - 1))

BaseName(p) == SubSeq(p, LastSlash(p) + 1, Len(p))

Join(dirpath, name) ==
    IF dirpath # <<>> /\ dirpath[Len(dirpath)] = "/" THEN dirpath \o name
    ELSE dirpath \o <<"/">> \o name

StartsWith(s, prefix) ==
    Len(prefix) <= Len(s) /\ SubSeq(s, 1, Len(prefix)) = prefix

\* p is root itself or lies below root, compared on path segments
UnderRoot(p, root) == p = root \/ StartsWith(p, root \o <<"/">>)
Below(p, root)     == p # root /\ UnderRoot(p, root)

\* position of a path in directory-listing order
Pos(p) == CHOOSE i \in 1..Len(PathOrder) : PathOrder[i] = p

RECURSIVE SortPaths(_)
SortPaths(S) ==
    IF S = {} THEN <<>>
    ELSE LET m == CHOOSE x \in S : \A y \in S : Pos(x) <= Pos(y)
         IN  <<m>> \o SortPaths(S \ {m})

Max(S) == CHOOSE x \in S : \A y \in S : y <= x

Abs(x) == IF x < 0 THEN -x ELSE x

----------------------------------------------------------------------------
(* SQLite: the LIKE operator and the FTS5 tokenizer. *)

\* ASCII case folding, as LIKE and the unicode61 tokenizer apply it
Lower(c) ==
    CASE c = "D" -> "d"
      [] c = "N" -> "n"
      [] c = "T" -> "t"
      [] OTHER   -> c

IsAlnum(c) == Lower(c) \in {"d", "m", "n", "s", "t", "2"}

\* s LIKE pat: % matches any run of characters, _ any one character,
\* every other character matches itself up to ASCII case
RECURSIVE Like(_, _)
Like(s, pat) ==
    IF pat = <<>> THEN s = <<>>
    ELSE IF Head(pat) = "%"
         THEN \E k \in 0..Len(s) : Like(SubSeq(s, k + 1, Len(s)), Tail(pat))
    ELSE /\ s # <<>>
         /\ (Head(pat) = "_" \/ Lower(Head(pat)) = Lower(Head(s)))
         /\ Like(Tail(s), Tail(pat))

\* a variant that matches the path itself only
EqualPath(F, path) == {r \in F : r.path = path}

\* WHERE path LIKE ? with the parameter f"{path}%"
LikePrefix(F, path) == {r \in F : Like(r.path, path \o <<"%">>)}

\* the tokens FTS5 indexes for a name: maximal alphanumeric runs, folded
RECURSIVE TokSplit(_, _)
TokSplit(s, cur) ==
    IF s = <<>> THEN (IF cur = <<>> THEN {} ELSE {cur})
    ELSE IF IsAlnum(Head(s))
         THEN TokSplit(Tail(s), Append(cur, Lower(Head(s))))
    ELSE (IF cur = <<>> THEN {} ELSE {cur}) \cup TokSplit(Tail(s), <<>>)

Tokens(name) == TokSplit(name, <<>>)

----------------------------------------------------------------------------
(* The tables and their triggers.  A database state is a record            *)
(* [files, fts]; every operator returns the state after the statement.     *)

DB(F, T) == [files |-> F, fts |-> T]

Row(id, path, name, type, size, mtime) ==
    [id |-> id, path |-> path, name |-> name, type |-> type,
     size |-> size, mtime |-> mtime]

\* the rowid SQLite gives a row inserted without an id
NewRowid(F) == IF F = {} THEN 1 ELSE Max({r.id : r \in F}) + 1

\* INSERT INTO files_fts(rowid, name) VALUES (new.id, new.name)
FtsInsert(T, id, name) == T \cup {<<id, t>> : t \in Tokens(name)}

\* INSERT INTO files_fts(files_fts, rowid, name) VALUES ('delete', old.id, old.name)
FtsDelete(T, id, name) == T \ {<<id, t>> : t \in Tokens(name)}

\* trigger files_after_insert
files_after_insert(db, new) == DB(db.files, FtsInsert(db.fts, new.id, new.name))

\* trigger files_after_delete
files_after_delete(db, old) == DB(db.files, FtsDelete(db.fts, old.id, old.name))

\* trigger files_after_update
files_after_update(db, old, new) ==
    DB(db.files, FtsInsert(FtsDelete(db.fts, old.id, old.name), new.id, new.name))

\* DELETE FROM files WHERE <the rows of S>, firing files_after_delete per row
RECURSIVE DeleteRows(_, _)
DeleteOne(db, r) == files_after_delete(DB(db.files \ {r}, db.fts), r)
DeleteRows(db, S) ==
    IF S = {} THEN db
    ELSE DeleteRows(DeleteOne(db, CHOOSE x \in S : TRUE), S \ {CHOOSE x \in S : TRUE})

\* the UNIQUE constraint on files.path
PathTaken(F, path) == \E r \in F : r.path = path

\* a row enters table files and files_after_insert fires
PutRow(db, kept, new) == files_after_insert(DB(kept \cup {new}, db.fts), new)

\* INSERT INTO files (path, name, type, size, mtime) VALUES (...), no conflict
InsertRow(db, d) ==
    PutRow(db, db.files,
           Row(NewRowid(db.files), d.path, d.name, d.type, d.size, d.mtime))

\* a variant that leaves the conflicting row in place
InsertKeepingRow(db, d) ==
    PutRow(db, db.files,
           Row(NewRowid(db.files), d.path, d.name, d.type, d.size, d.mtime))

\* INSERT OR REPLACE INTO files (...): the conflicting row is removed by the
\* conflict resolution, which fires no delete trigger (recursive_triggers is
\* off), and the new row takes a fresh rowid chosen before the removal
InsertOrReplaceRow(db, d) ==
    PutRow(db, {r \in db.files : r.path # d.path},
           Row(NewRowid(db.files), d.path, d.name, d.type, d.size, d.mtime))

\* one row changes in place and files_after_update fires
ChangeRow(db, old, new) ==
    files_after_update(DB((db.files \ {old}) \cup {new}, db.fts), old, new)

\* a variant that writes every column but mtime
UpdateRowKeepsMtime(db, d) ==
    IF \E r \in db.files : r.id = d.id
    THEN ChangeRow(db, CHOOSE r \in db.files : r.id = d.id,
                   Row(d.id, d.path, d.name, d.type, d.size,
                       (CHOOSE r \in db.files : r.id = d.id).mtime))
    ELSE db

\* UPDATE files SET path=?, name=?, type=?, size=?, mtime=? WHERE id=?
UpdateRow(db, d) ==
    IF \E r \in db.files : r.id = d.id
    THEN ChangeRow(db, CHOOSE r \in db.files : r.id = d.id,
                   Row(d.id, d.path, d.name, d.type, d.size, d.mtime))
    ELSE db

----------------------------------------------------------------------------
(* The filesystem as the code reads it: os.stat, os.path.exists,           *)
(* os.path.isdir, os.walk.                                                 *)

NoEnt == [ex |-> FALSE, mtime |-> 0, size |-> 0]

Parent(p) == SubSeq(p, 1, LastSlash(p) - 1)

\* os.stat(p) returns rather than raising OSError
StatOk(p) == p \in Paths /\ fs[p].ex /\ p \notin statFail

\* os.path.exists and os.path.isdir answer False when the stat fails
Exists(p) == StatOk(p)
IsDir(p)  == StatOk(p) /\ p \in Dirs

\* the entries os.scandir(dir) lists, by name, directories and files apart
DirNames(dir)  == {BaseName(q) : q \in {q \in Paths : fs[q].ex /\ Parent(q) = dir /\ q \in Dirs}}
FileNames(dir) == {BaseName(q) : q \in {q \in Paths : fs[q].ex /\ Parent(q) = dir /\ q \notin Dirs}}

NamesOf(ps) == [i \in 1..Len(ps) |-> BaseName(ps[i])]
SortNames(dir, names) == NamesOf(SortPaths({Join(dir, n) : n \in names}))

\* os.walk(top): top-down triples (dirpath, dirnames, filenames); a top that
\* is missing or no directory yields nothing
RECURSIVE Walk(_), WalkEach(_, _)
WalkDir(top, dn, fn) ==
    <<[dirpath |-> top, dirnames |-> dn, filenames |-> fn]>> \o WalkEach(top, dn)
Walk(top) ==
    IF ~(top \in Dirs /\ fs[top].ex) THEN <<>>
    ELSE WalkDir(top, SortNames(top, DirNames(top)), SortNames(top, FileNames(top)))
WalkEach(top, dn) ==
    IF dn = <<>> THEN <<>>
    ELSE Walk(Join(top, Head(dn))) \o WalkEach(top, Tail(dn))

----------------------------------------------------------------------------
(* Indexer: the batch write and the single-row statements. *)

\* a 5-tuple (new) or 6-tuple (update, led by the stored id) of a batch
Doc(kind, id, path, name, type, size, mtime) ==
    [kind |-> kind, id |-> id, path |-> path, name |-> name, type |-> type,
     size |-> size, mtime |-> mtime]

IsNew(d) == d.kind = "new"
IsUpd(d) == d.kind = "upd"

\* sqlite3.IntegrityError: the statement would break UNIQUE(path)
Conflicts(db, d) ==
    IF IsNew(d) THEN PathTaken(db.files, d.path)
    ELSE /\ \E r \in db.files : r.id = d.id
         /\ \E r \in db.files : r.path = d.path /\ r.id # d.id

\* one statement of cursor.executemany
ExecOne(db, d) == IF IsNew(d) THEN InsertRow(db, d) ELSE UpdateRow(db, d)

\* cursor.executemany: row after row until one raises
RECURSIVE ExecMany(_, _)
ExecMany(db, docs) ==
    IF docs = <<>> THEN [db |-> db, ok |-> TRUE]
    ELSE IF Conflicts(db, Head(docs)) THEN [db |-> db, ok |-> FALSE]
    ELSE ExecMany(ExecOne(db, Head(docs)), Tail(docs))

\* a variant that keeps what the statements before the failing one wrote
RollbackKeeps(txn, cur) == cur

\* self.conn.rollback(): back to the state the open transaction began in
Rollback(txn, cur) == txn

\* commit when every statement ran, print the error and roll back otherwise
BatchOutcome(txn, res) ==
    IF res.ok THEN [db |-> res.db, failed |-> FALSE]
    ELSE [db |-> Rollback(txn, res.db), failed |-> TRUE]

\* add_documents_batch on a connection whose open transaction began in state
\* txn and has reached state cur: the 5-tuples are inserted, then the
\* 6-tuples update by id
add_documents_batch(txn, cur, documents) ==
    BatchOutcome(txn, ExecMany(cur, SelectSeq(documents, IsNew) \o SelectSeq(documents, IsUpd)))

\* add_document: INSERT OR REPLACE and commit
add_document(db, path, name, doc_type, size, mtime) ==
    InsertOrReplaceRow(db, Doc("new", 0, path, name, doc_type, size, mtime))

\* delete_document: DELETE FROM files WHERE path = ?
delete_document(db, path) == DeleteRows(db, {r \in db.files : r.path = path})

----------------------------------------------------------------------------
(* Indexer.sync_changes *)

Tolerance == 1      \* seconds of mtime difference that is no change

RECURSIVE Flatten(_)
Flatten(ss) == IF ss = <<>> THEN <<>> ELSE Head(ss) \o Flatten(Tail(ss))

\* the (item_path, item_name) pairs of one triple's dirnames + filenames
ItemsNamed(dirpath, names) ==
    [j \in 1..Len(names) |-> [path |-> Join(dirpath, names[j]), name |-> names[j]]]

ItemsOfWalk(w) ==
    Flatten([i \in 1..Len(w) |-> ItemsNamed(w[i].dirpath, w[i].dirnames \o w[i].filenames)])

WalkItems(scan_path) == ItemsOfWalk(Walk(scan_path))

\* a variant that counts a difference of exactly the tolerance as a change
MtimeChangedAtTolerance(mtime, stored) == Abs(mtime - stored) >= 1

\* the stored mtime differs from the live one by more than the tolerance
MtimeChanged(mtime, stored) == Abs(mtime - stored) > Tolerance

TypeOf(path) == IF IsDir(path) THEN "folder" ELSE "file"
SizeOf(path) == IF IsDir(path) THEN 0 ELSE fs[path].size

\* the branch of the loop body for a path that is stored already
SyncChanged(item, row) ==
    IF MtimeChanged(fs[item.path].mtime, row.mtime)
    THEN <<Doc("upd", row.id, item.path, item.name, TypeOf(item.path),
               SizeOf(item.path), fs[item.path].mtime)>>
    ELSE <<>>

\* what the loop body appends to to_add_or_update for one item
SyncDoc(item, db_rows) ==
    IF ~StatOk(item.path) THEN <<>>
    ELSE IF ~PathTaken(db_rows, item.path)
         THEN <<Doc("new", 0, item.path, item.name, TypeOf(item.path),
                    SizeOf(item.path), fs[item.path].mtime)>>
    ELSE SyncChanged(item, CHOOSE r \in db_rows : r.path = item.path)

PathsOf(docs, kind) == {docs[i].path : i \in {j \in 1..Len(docs) : docs[j].kind = kind}}

\* a variant that counts an entry as seen only once its stat has succeeded
SyncPlanStatFirst(db_rows, items) ==
    [to_add_or_update |-> Flatten([i \in 1..Len(items) |-> SyncDoc(items[i], db_rows)]),
     deleted_paths    |-> {r.path : r \in db_rows}
                          \ {items[i].path : i \in {j \in 1..Len(items) : StatOk(items[j].path)}}]

\* the three-way diff: to_add_or_update and deleted_paths
SyncPlan(db_rows, items) ==
    [to_add_or_update |-> Flatten([i \in 1..Len(items) |-> SyncDoc(items[i], db_rows)]),
     deleted_paths    |-> {r.path : r \in db_rows} \ {items[i].path : i \in 1..Len(items)}]

sync_plan(db, scan_path) == SyncPlan(LikePrefix(db.files, scan_path), WalkItems(scan_path))

\* DELETE FROM files WHERE path IN (deleted_paths), when there are any
SyncDelete(db, deleted_paths) ==
    DeleteRows(db, {r \in db.files : r.path \in deleted_paths})

\* a variant in which the DELETE is committed before the batch write begins
SyncWriteApart(db, afterDelete, to_add_or_update) ==
    IF to_add_or_update # <<>>
    THEN add_documents_batch(afterDelete, afterDelete, to_add_or_update)
    ELSE [db |-> afterDelete, failed |-> FALSE]

\* the batch write, in the transaction the DELETE opened, and the commit
SyncWrite(db, afterDelete, to_add_or_update) ==
    IF to_add_or_update # <<>>
    THEN add_documents_batch(db, afterDelete, to_add_or_update)
    ELSE [db |-> afterDelete, failed |-> FALSE]

SyncReport(batch) ==
    [db     |-> batch.db,
     failed |-> batch.failed,
     sink   |-> {"sync_prepare", "sync_db_count", "sync_scanned", "sync_done"}]

SyncApply(db, plan) ==
    SyncReport(SyncWrite(db, SyncDelete(db, plan.deleted_paths), plan.to_add_or_update))

\* the result of sync_changes(scan_path) run on the committed state db
sync_changes(db, scan_path) == SyncApply(db, sync_plan(db, scan_path))

----------------------------------------------------------------------------
(* scanner.scan_directory *)

\* a variant that records files only
ScanDirDocNone(dirpath) == <<>>

\* the record of a walked directory
ScanDirDoc(dirpath) ==
    IF StatOk(dirpath)
    THEN <<Doc("new", 0, dirpath, BaseName(dirpath), "folder", 0, fs[dirpath].mtime)>>
    ELSE <<>>

\* a variant that records a file whether its stat succeeds or not
ScanFileDocUnchecked(file_path, filename) ==
    <<Doc("new", 0, file_path, filename, "file",
          fs[file_path].size, fs[file_path].mtime)>>

\* the record of one of its files
ScanFileDoc(file_path, filename) ==
    IF StatOk(file_path)
    THEN <<Doc("new", 0, file_path, filename, "file",
               fs[file_path].size, fs[file_path].mtime)>>
    ELSE <<>>

\* the records of one os.walk triple: the directory, then its files
ScanDocsOf(t) ==
    ScanDirDoc(t.dirpath)
    \o Flatten([j \in 1..Len(t.filenames) |->
                  ScanFileDoc(Join(t.dirpath, t.filenames[j]), t.filenames[j])])

ScanDocsOfWalk(w) == Flatten([i \in 1..Len(w) |-> ScanDocsOf(w[i])])

ScanDocs(root_path) == ScanDocsOfWalk(Walk(root_path))

\* some os.stat of the walk raised and was reported to the sink
StatErrorIn(items) == \E i \in 1..Len(items) : ~StatOk(items[i].path)

ScanReport(batch, stat_error) ==
    [db     |-> batch.db,
     failed |-> batch.failed,
     sink   |-> {"scan_start", "scan_writing", "scan_done"}
                \cup (IF stat_error THEN {"stat_error"} ELSE {})]

scan_directory(db, root_path) ==
    IF ~IsDir(root_path)
    THEN [db |-> db, failed |-> FALSE, sink |-> {"not_a_directory"}]
    ELSE ScanReport(add_documents_batch(db, db, ScanDocs(root_path)),
                    StatErrorIn(WalkItems(root_path)))

----------------------------------------------------------------------------
(* Indexer: roots, clearing, searching. *)

\* get_indexed_paths: SELECT path FROM indexed_paths ORDER BY path
get_indexed_paths(roots) == SortPaths(roots)

\* add_indexed_path: INSERT OR IGNORE INTO indexed_paths
add_indexed_path(roots, path) == roots \cup {path}

\* remove_indexed_path: the registry row by equality, the files rows by LIKE
remove_indexed_path(db, roots, path) ==
    [roots |-> roots \ {path},
     db    |-> DeleteRows(db, LikePrefix(db.files, path))]

\* clear_index(path): `if path` is false for None and for the empty string
clear_index(db, roots, path) ==
    IF path # None
    THEN [roots |-> roots, db |-> DeleteRows(db, LikePrefix(db.files, path))]
    ELSE [roots |-> {},    db |-> DeleteRows(db, db.files)]

\* the words of an FTS5 query string made of barewords and spaces
RECURSIVE Words(_, _)
Flush(cur) == IF cur = <<>> THEN <<>> ELSE <<cur>>
Words(s, cur) ==
    IF s = <<>> THEN Flush(cur)
    ELSE IF Head(s) = " " THEN Flush(cur) \o Words(Tail(s), <<>>)
    ELSE Words(Tail(s), Append(cur, Lower(Head(s))))

\* f'{query_str}*' parses as an FTS5 query: barewords only, the last one
\* directly followed by the star
QueryParses(query_str) ==
    /\ query_str # <<>>
    /\ query_str[Len(query_str)] # " "
    /\ \A i \in 1..Len(query_str) : IsAlnum(query_str[i]) \/ query_str[i] = " "

\* the rows of files JOIN files_fts ... MATCH 'w1 w2 ... wn*'
MatchWords(db, w) ==
    {r \in db.files :
        /\ \A i \in 1..(Len(w) - 1) : <<r.id, w[i]>> \in db.fts
        /\ \E e \in db.fts : e[1] = r.id /\ StartsWith(e[2], w[Len(w)])}

\* ORDER BY rank: the names of this universe rank equal under one query, and
\* rows of equal rank come out in rowid order
RECURSIVE ByRank(_)
ByRank(S) ==
    IF S = {} THEN <<>>
    ELSE LET m == CHOOSE x \in S : \A y \in S : x.id <= y.id
         IN  <<m>> \o ByRank(S \ {m})

\* SELECT f.path, f.name, f.type, f.size, f.mtime and dict(row)
Selected(rows) ==
    [i \in 1..Len(rows) |->
        [path |-> rows[i].path, name |-> rows[i].name, type |-> rows[i].type,
         size |-> rows[i].size, mtime |-> rows[i].mtime]]

\* a limit is None or <<n>>; `if limit` is false for None and for 0
Truthy(limit) == limit # None /\ limit[1] # 0

\* LIMIT ? appended when the limit is truthy
Limited(rows, limit) ==
    IF Truthy(limit) /\ limit[1] < Len(rows) THEN SubSeq(rows, 1, limit[1]) ELSE rows

\* search(query_str, limit): the rows found, or sqlite3.OperationalError raised
search(db, query_str, limit) ==
    IF QueryParses(query_str)
    THEN [raised |-> FALSE,
          rows   |-> Limited(Selected(ByRank(MatchWords(db, Words(query_str, <<>>)))), limit)]
    ELSE [raised |-> TRUE, rows |-> <<>>]

\* query_str.strip(): what is left once the blanks at both ends are gone
RECURSIVE Strip(_)
Strip(q) ==
    IF q = <<>> THEN q
    ELSE IF Head(q) = " " THEN Strip(Tail(q))
    ELSE IF q[Len(q)] = " " THEN Strip(SubSeq(q, 1, Len(q) - 1))
    ELSE q

\* what run_search does with the outcome of the search: results_ready or
\* error_occurred
Emitted(r, created) ==
    [rows |-> r.rows, error |-> r.raised, searched |-> TRUE, created |-> created]

\* SearchWorker.run_search(query_str): the worker's Indexer is created on the
\* first call (created tells whether this call did), a blank query is answered
\* with [] without a search
run_search(db, has_indexer, query_str) ==
    IF Strip(query_str) = <<>>
    THEN [rows |-> <<>>, error |-> FALSE, searched |-> FALSE, created |-> ~has_indexer]
    ELSE Emitted(search(db, query_str, None), ~has_indexer)

----------------------------------------------------------------------------
(* watcher.IndexingEventHandler *)

\* a variant that upserts without looking whether the path still exists
AddItemUnchecked(db, path) ==
    add_document(db, path, BaseName(path), TypeOf(path), SizeOf(path), fs[path].mtime)

\* _add_item_action(indexer, path): settle, re-stat, upsert one record
add_item_action(db, path) ==
    IF ~Exists(path) THEN db
    ELSE add_document(db, path, BaseName(path), TypeOf(path), SizeOf(path),
                      fs[path].mtime)

\* on_moved: delete the source record, then the add logic for the destination
move_action(db, src_path, dest_path) ==
    add_item_action(delete_document(db, src_path), dest_path)

\* an observer is scheduled, recursively, on every registered root
Watched(p) == \E root \in indexed_paths : UnderRoot(p, root)

----------------------------------------------------------------------------
(* ui.main_window.ScanningWorker *)

\* the documents add_path collects: every entry below path, st_size as is
AddPathDoc(item) ==
    IF StatOk(item.path)
    THEN <<Doc("new", 0, item.path, item.name, TypeOf(item.path),
               fs[item.path].size, fs[item.path].mtime)>>
    ELSE <<>>

AddPathDocsOf(items) == Flatten([i \in 1..Len(items) |-> AddPathDoc(items[i])])

AddPathDocs(path) == AddPathDocsOf(WalkItems(path))

\* the outcome of one root's sync joined to that of the roots before it
SyncMerge(r, one) ==
    [db     |-> one.db,
     failed |-> r.failed \/ one.failed,
     sink   |-> r.sink \cup {"syncing"} \cup one.sink]

\* sync_all_paths: sync_changes for each registered root, in listing order
RECURSIVE SyncEach(_, _)
SyncEach(r, paths) ==
    IF paths = <<>> THEN r
    ELSE SyncEach(SyncMerge(r, sync_changes(r.db, Head(paths))), Tail(paths))

sync_all_paths(db, roots) ==
    SyncEach([db |-> db, failed |-> FALSE, sink |-> {"sync_all_start"}],
             get_indexed_paths(roots))

----------------------------------------------------------------------------
(* The state machine. *)

CurDB == DB(files, fts)

\* op: the operation's name and arguments, whether its batch write raised,
\* the kinds of message it sent to the status sink, whether it changed table
\* files, and whether it is a sync_changes run directly after a sync_changes
\* of the same path
MkOp(name, path, dest, failed, sink, db) ==
    [name |-> name, path |-> path, dest |-> dest, failed |-> failed, sink |-> sink,
     wrote |-> db.files # files,
     again |-> name = "sync_changes" /\ op.name = name /\ op.path = path]

\* op after a search: the query and the limit, the rows returned, whether an
\* error was raised, whether a statement ran against the store
SearchOp(name, query_str, limit, r, ran) ==
    [name |-> name, path |-> None, dest |-> None, failed |-> FALSE, sink |-> {},
     wrote |-> FALSE, again |-> FALSE,
     query |-> query_str, limit |-> limit, rows |-> r.rows, raised |-> r.raised,
     ran |-> ran]

\* commit db as the new content of the store, rowids within the bound
Commit(db) ==
    /\ \A r \in db.files : r.id <= MaxId
    /\ files' = db.files
    /\ fts' = db.fts

\* an operation ends: its store is committed and what it reported is kept
Finish(name, path, r) ==
    /\ Commit(r.db)
    /\ op' = MkOp(name, path, None, r.failed, r.sink, r.db)

\* what os.stat reports for an entry written at time mtime
Entry(p, mtime) ==
    [ex |-> TRUE, mtime |-> mtime,
     size |-> IF p \in Dirs THEN CHOOSE x \in DirStSize : TRUE
              ELSE CHOOSE x \in FileSizes : TRUE]

\* no sync_changes call is in progress
Idle == [pc |-> "idle"]

\* the tree at the start: every entry but the renamed file's second name and
\* the inner directory
InitFs == [p \in Paths |-> IF p \in {DM, DS} THEN NoEnt ELSE Entry(p, 0)]

Init ==
    /\ files = {}
    /\ fts = {}
    /\ indexed_paths = {}
    /\ fs = InitFs
    /\ statFail = {}
    /\ searcher = FALSE
    /\ pending = Idle
    /\ events = <<>>
    /\ op = [name |-> "init", path |-> None, dest |-> None, failed |-> FALSE,
             sink |-> {}, wrote |-> FALSE, again |-> FALSE]

\* Indexer.sync_changes(scan_path, progress_callback)
SyncChanges(scan_path) ==
    /\ scan_path \in indexed_paths     \* its one caller passes registered roots
    /\ Finish("sync_changes", scan_path, sync_changes(CurDB, scan_path))
    /\ UNCHANGED <<searcher, pending, events, indexed_paths, fs, statFail>>

\* ScanningWorker.sync_all_paths
SyncAllDone(r) ==
    /\ Commit(r.db)
    /\ op' = MkOp("sync_all_paths", None, None, r.failed,
                  r.sink \cup {"sync_all_done"}, r.db)

SyncAllPaths ==
    /\ SyncAllDone(sync_all_paths(CurDB, indexed_paths))
    /\ UNCHANGED <<searcher, pending, events, indexed_paths, fs, statFail>>

\* scanner.scan_directory(root_path, indexer, progress_callback)
ScanDirectory(root_path) ==
    /\ Finish("scan_directory", root_path, scan_directory(CurDB, root_path))
    /\ UNCHANGED <<searcher, pending, events, indexed_paths, fs, statFail>>

\* ScanningWorker.add_path(path)
AddPathDone(path, batch) ==
    /\ Commit(batch.db)
    /\ op' = MkOp("add_path", path, None, batch.failed, {"adding", "added"}, batch.db)

AddPath(path) ==
    /\ AddPathDone(path, add_documents_batch(CurDB, CurDB, AddPathDocs(path)))
    /\ indexed_paths' = add_indexed_path(indexed_paths, path)
    /\ UNCHANGED <<searcher, pending, events, fs, statFail>>

\* ScanningWorker.remove_path(path)
RemovePathDone(path, r) ==
    /\ Commit(r.db)
    /\ indexed_paths' = r.roots
    /\ op' = MkOp("remove_path", path, None, FALSE, {"removed"}, r.db)

RemovePath(path) ==
    /\ path \in indexed_paths          \* picked from the list of registered roots
    /\ RemovePathDone(path, remove_indexed_path(CurDB, indexed_paths, path))
    /\ UNCHANGED <<searcher, pending, events, fs, statFail>>

\* Indexer.clear_index(path)
ClearIndexDone(path, r) ==
    /\ Commit(r.db)
    /\ indexed_paths' = r.roots
    /\ op' = MkOp("clear_index", path, None, FALSE, {}, r.db)

ClearIndex(path) ==
    /\ ClearIndexDone(path, clear_index(CurDB, indexed_paths, path))
    /\ UNCHANGED <<searcher, pending, events, fs, statFail>>

\* _execute_action: the handler's action ran on an Indexer of its own
EventDone(name, src_path, dest_path, db) ==
    /\ Commit(db)
    /\ op' = MkOp(name, src_path, dest_path, FALSE, {}, db)

\* IndexingEventHandler.on_created(event)
OnCreated(src_path) ==
    /\ Watched(src_path)
    /\ EventDone("on_created", src_path, None, add_item_action(CurDB, src_path))
    /\ UNCHANGED <<searcher, pending, events, indexed_paths, fs, statFail>>

\* IndexingEventHandler.on_modified(event)
OnModified(src_path) ==
    /\ Watched(src_path)
    /\ EventDone("on_modified", src_path, None, add_item_action(CurDB, src_path))
    /\ UNCHANGED <<searcher, pending, events, indexed_paths, fs, statFail>>

\* IndexingEventHandler.on_deleted(event)
OnDeleted(src_path) ==
    /\ Watched(src_path)
    /\ EventDone("on_deleted", src_path, None, delete_document(CurDB, src_path))
    /\ UNCHANGED <<searcher, pending, events, indexed_paths, fs, statFail>>

\* IndexingEventHandler.on_moved(event)
OnMoved(src_path, dest_path) ==
    /\ Watched(src_path)
    /\ src_path # dest_path
    /\ EventDone("on_moved", src_path, dest_path,
                 move_action(CurDB, src_path, dest_path))
    /\ UNCHANGED <<searcher, pending, events, indexed_paths, fs, statFail>>

\* Indexer.search(query_str, limit)
Search(query_str, limit) ==
    /\ op' = SearchOp("search", query_str, limit, search(CurDB, query_str, limit), TRUE)
    /\ UNCHANGED <<files, fts, indexed_paths, fs, statFail, searcher, pending, events>>

\* SearchWorker.run_search(query_str): a statement runs against the store when
\* the Indexer is created (init_db) and when the search is made
RunSearchDone(query_str, r) ==
    /\ op' = SearchOp("run_search", query_str, None,
                      [rows |-> r.rows, raised |-> r.error], r.searched \/ r.created)
    /\ searcher' = TRUE

RunSearch(query_str) ==
    /\ RunSearchDone(query_str, run_search(CurDB, searcher, query_str))
    /\ UNCHANGED <<files, fts, indexed_paths, fs, statFail, pending, events>>

\* what op holds after a step of the environment
FsOp == MkOp("fs", None, None, FALSE, {}, CurDB)

\* sync_changes, first part: the SELECT of the stored rows and the walk, which
\* leave the to_add_or_update list and the deleted_paths set in the call's frame
SyncWalk(scan_path) ==
    /\ pending = Idle
    /\ scan_path \in indexed_paths
    /\ pending' = [pc |-> "walked", path |-> scan_path, plan |-> sync_plan(CurDB, scan_path)]
    /\ op' = MkOp("sync_walk", scan_path, None, FALSE,
                  {"sync_prepare", "sync_db_count", "sync_scanned"}, CurDB)
    /\ UNCHANGED <<files, fts, indexed_paths, fs, statFail, searcher, events>>

\* sync_changes, second part: the DELETE, the batch write and the commit, run
\* on the store as it is by then
SyncCommit ==
    /\ pending # Idle
    /\ Finish("sync_changes", pending.path, SyncApply(CurDB, pending.plan))
    /\ pending' = Idle
    /\ UNCHANGED <<indexed_paths, fs, statFail, searcher, events>>

\* the observer of a registered root queues the event of a change below it
Notify(kind, p) ==
    events' = IF Watched(p) THEN Append(events, [kind |-> kind, path |-> p]) ELSE events

\* a file appears on disk; its root's observer, if any, sees it
FsCreated(p) ==
    /\ ~fs[p].ex
    /\ Len(events) < MaxEvents
    /\ fs' = [fs EXCEPT ![p] = Entry(p, 0)]
    /\ Notify("on_created", p)
    /\ op' = FsOp
    /\ UNCHANGED <<files, fts, indexed_paths, statFail, searcher, pending>>

\* a file is removed from disk; its root's observer, if any, sees it
FsDeleted(p) ==
    /\ fs[p].ex
    /\ Len(events) < MaxEvents
    /\ fs' = [fs EXCEPT ![p] = NoEnt]
    /\ Notify("on_deleted", p)
    /\ op' = FsOp
    /\ UNCHANGED <<files, fts, indexed_paths, statFail, searcher, pending>>

\* the store after the handler of one queued event ran
Handled(db, e) ==
    IF e.kind = "on_deleted" THEN delete_document(db, e.path)
    ELSE add_item_action(db, e.path)

\* the observer's thread takes the oldest event and runs its handler, on an
\* Indexer of its own
Dispatch ==
    /\ events # <<>>
    /\ EventDone(Head(events).kind, Head(events).path, None, Handled(CurDB, Head(events)))
    /\ events' = Tail(events)
    /\ UNCHANGED <<indexed_paths, fs, statFail, searcher, pending>>

\* the events of the observers that go on watching
StillWatched(e) == Watched(e.path)

\* MainWindow.restart_watchers(paths), once remove_path has emitted
\* paths_updated: the observers are stopped and joined, those of the roots left
\* are started anew, and what a stopped observer had queued is never handled
RestartWatchers ==
    /\ events # SelectSeq(events, StillWatched)
    /\ events' = SelectSeq(events, StillWatched)
    /\ op' = MkOp("restart_watchers", None, None, FALSE, {}, CurDB)
    /\ UNCHANGED <<files, fts, indexed_paths, fs, statFail, searcher, pending>>

\* the environment writes a file: its mtime moves
FsWrite(p, m) ==
    /\ fs[p].ex
    /\ m # fs[p].mtime
    /\ fs' = [fs EXCEPT ![p].mtime = m]
    /\ op' = FsOp
    /\ UNCHANGED <<searcher, pending, events, files, fts, indexed_paths, statFail>>

\* the environment removes an entry and everything below it
FsRemove(p) ==
    /\ fs[p].ex
    /\ fs' = [q \in Paths |-> IF UnderRoot(q, p) THEN NoEnt ELSE fs[q]]
    /\ statFail' = {q \in statFail : ~UnderRoot(q, p)}
    /\ op' = FsOp
    /\ UNCHANGED <<searcher, pending, events, files, fts, indexed_paths>>

\* the environment creates an entry in an existing directory
FsCreate(p, m) ==
    /\ ~fs[p].ex
    /\ Parent(p) \in Paths => fs[Parent(p)].ex
    /\ fs' = [fs EXCEPT ![p] = Entry(p, m)]
    /\ op' = FsOp
    /\ UNCHANGED <<searcher, pending, events, files, fts, indexed_paths, statFail>>

\* the environment renames a file within its directory
FsRename(src_path, dest_path) ==
    /\ fs[src_path].ex
    /\ ~fs[dest_path].ex
    /\ fs' = [fs EXCEPT ![dest_path] = fs[src_path], ![src_path] = NoEnt]
    /\ statFail' = statFail \ {src_path}
    /\ op' = FsOp
    /\ UNCHANGED <<searcher, pending, events, files, fts, indexed_paths>>

\* os.stat of a file starts or stops raising OSError (permissions, a race)
FsStatFail(p) ==
    /\ p \notin Dirs
    /\ fs[p].ex
    /\ statFail' = IF p \in statFail THEN statFail \ {p} ELSE {p}
    /\ op' = FsOp
    /\ UNCHANGED <<searcher, pending, events, files, fts, indexed_paths, fs>>

\* the scanning worker, the scanner and the environment, over both roots
Next ==
    \/ \E root \in Roots : SyncChanges(root)
    \/ SyncAllPaths
    \/ \E root \in Roots : ScanDirectory(root)
    \/ \E root \in Roots : AddPath(root)
    \/ \E root \in Roots : RemovePath(root)
    \/ \E path \in Roots \cup {None} : ClearIndex(path)
    \/ \E p \in Mutable \ Dirs, m \in Mtimes : FsWrite(p, m)
    \/ \E p \in Mutable : FsRemove(p)
    \/ \E p \in Mutable : FsCreate(p, 0)
    \/ \E p \in Mutable : FsStatFail(p)

Spec == Init /\ [][Next]_vars

\* the rowids stay within the cap of the specification with watch events
WatchIds == \A r \in files' : r.id <= MaxWatchId

\* the same with the watch-event handlers running, over the one root whose
\* subtree the environment changes
NextWatch ==
    \/ \E root \in WatchRoots : SyncChanges(root) /\ WatchIds
    \/ SyncAllPaths /\ WatchIds
    \/ \E root \in WatchRoots : ScanDirectory(root) /\ WatchIds
    \/ \E root \in WatchRoots : AddPath(root) /\ WatchIds
    \/ \E root \in WatchRoots : RemovePath(root)
    \/ \E path \in WatchRoots \cup {None} : ClearIndex(path)
    \/ \E p \in Mutable : OnCreated(p) /\ WatchIds
    \/ \E p \in Mutable : OnModified(p) /\ WatchIds
    \/ \E p \in Mutable : OnDeleted(p)
    \/ \E p, q \in Mutable : OnMoved(p, q) /\ WatchIds
    \/ \E p \in Mutable \ Dirs, m \in Mtimes : FsWrite(p, m)
    \/ \E p \in Mutable : FsRemove(p)
    \/ \E p \in Mutable : FsCreate(p, 0)
    \/ \E p \in Mutable : FsStatFail(p)

SpecWatch == Init /\ [][NextWatch]_vars

\* the query strings and limits a search is made with
SearchQueries ==
    {BaseName(p) : p \in Paths} \cup UNION {Tokens(BaseName(p)) : p \in Paths}
    \cup {<<>>, <<" ">>, <<"N">>}
Limits == {None} \cup {<<n>> : n \in 0..MaxLimit}

\* searches on a store that add_path, remove_path and the watch events of
\* both roots' registered subtrees write
NextSearch ==
    \/ \E root \in Roots : AddPath(root) /\ WatchIds
    \/ \E root \in Roots : RemovePath(root)
    \/ \E p \in Mutable : OnCreated(p) /\ WatchIds
    \/ \E p \in Mutable : OnModified(p) /\ WatchIds
    \/ \E p \in Mutable : OnDeleted(p)
    \/ \E q \in SearchQueries, limit \in Limits : Search(q, limit)
    \/ \E q \in SearchQueries : RunSearch(q)

SpecSearch == Init /\ [][NextSearch]_vars

\* a file of the watched root is renamed while its events are handled
NextMove ==
    \/ \E root \in WatchRoots : AddPath(root) /\ WatchIds
    \/ \E root \in WatchRoots : RemovePath(root)
    \/ \E p, q \in Renamed : FsRename(p, q)
    \/ \E p \in Renamed : OnCreated(p) /\ WatchIds
    \/ \E p \in Renamed : OnModified(p) /\ WatchIds
    \/ \E p \in Renamed : OnDeleted(p)
    \/ \E p, q \in Renamed : OnMoved(p, q) /\ WatchIds

SpecMove == Init /\ [][NextMove]_vars

\* the scanning worker's add_path and sync_changes on one root, the sync in
\* two parts, with the observer's thread handling the events of that root in
\* between
NextConc ==
    \/ \E root \in WatchRoots : pending = Idle /\ AddPath(root) /\ WatchIds
    \/ \E root \in WatchRoots : SyncWalk(root)
    \/ SyncCommit /\ WatchIds
    \/ \E p \in Renamed : FsCreated(p)
    \/ \E p \in Renamed : FsDeleted(p)
    \/ Dispatch /\ WatchIds

SpecConc == Init /\ [][NextConc]_vars

\* one root that holds a directory and a file: every writer of the store runs
\* over it while the environment creates and removes the two
NextTree ==
    \/ \E root \in WatchRoots : AddPath(root) /\ WatchIds
    \/ \E root \in WatchRoots : RemovePath(root)
    \/ \E root \in WatchRoots : ScanDirectory(root) /\ WatchIds
    \/ \E root \in WatchRoots : SyncChanges(root) /\ WatchIds
    \/ \E p \in Nested : OnCreated(p) /\ WatchIds
    \/ \E p \in Nested : OnModified(p) /\ WatchIds
    \/ \E p \in Nested : FsRemove(p)
    \/ \E p \in Nested : FsCreate(p, 0)

SpecTree == Init /\ [][NextTree]_vars

\* the walks of scan_directory and sync_changes over one root of up to three
\* entries, the stat of its files failing and recovering in between
NextStat ==
    \/ \E root \in WatchRoots : AddPath(root)
    \/ \E root \in WatchRoots : RemovePath(root)
    \/ \E root \in WatchRoots : ScanDirectory(root)
    \/ \E root \in WatchRoots : SyncChanges(root)
    \/ FsWrite(DM, MaxMtime)
    \/ \E p \in Walked : FsRemove(p)
    \/ \E p \in Walked : FsCreate(p, 0)
    \/ \E p \in Walked : FsStatFail(p)

SpecStat == Init /\ [][NextStat]_vars

\* a root is added and removed while its observer's thread handles the events
\* it has queued, until the observer is stopped
NextRace ==
    \/ \E root \in WatchRoots : AddPath(root) /\ WatchIds
    \/ \E root \in WatchRoots : RemovePath(root)
    \/ SyncAllPaths /\ WatchIds
    \/ \E p \in Renamed : FsCreated(p)
    \/ \E p \in Renamed : FsDeleted(p)
    \/ Dispatch /\ WatchIds
    \/ RestartWatchers

SpecRace == Init /\ [][NextRace]_vars

----------------------------------------------------------------------------
(* Properties. *)

\* the paths table files holds
StoredPaths(F) == {r.path : r \in F}

\* every name a query is made of: the base names of the universe and their tokens
Queries == {BaseName(p) : p \in Paths} \cup UNION {Tokens(BaseName(p)) : p \in Paths}

\* C1: removing a root deletes no record outside that root's subtree: every
\* record that is neither the root itself nor below root + "/" (for root "/d",
\* the records under "/d2") is still stored, unchanged, after remove_path(root).
C1_RemoveRootFrame ==
    [][\A root \in Roots :
          (op'.name = "remove_path" /\ op'.path = root)
          => \A r \in files : ~UnderRoot(r.path, root) => r \in files']_vars

\* C2 as claimed: after sync_changes(root) has completed, the stored paths
\* below root are exactly the filesystem paths below root whose stat succeeds.
C2_SyncConsistencyClaimed ==
    (op.name = "sync_changes" /\ ~op.failed)
    => {p \in StoredPaths(files) : Below(p, op.path)}
       = {p \in Paths : fs[p].ex /\ Below(p, op.path) /\ p \notin statFail}

\* C2 as amended: after sync_changes(root) has completed, a path below root is
\* stored exactly if it exists on disk and either its stat succeeded or it was
\* stored already; a stored entry whose stat fails is kept, with the mtime it
\* had, instead of being dropped.
C2_SyncConsistency ==
    [][\A root \in Roots :
          (op'.name = "sync_changes" /\ op'.path = root /\ ~op'.failed)
          => /\ {p \in StoredPaths(files') : Below(p, root)}
                = {p \in Paths : /\ fs[p].ex
                                 /\ Below(p, root)
                                 /\ (p \notin statFail \/ p \in StoredPaths(files))}
             /\ \A r \in files : (Below(r.path, root) /\ r.path \in statFail)
                                 => r \in files']_vars

\* C2 witness: a sync has run over a stored file whose stat fails and over a
\* root that holds entries
C2_Witness ==
    /\ op.name = "sync_changes" /\ op.path = D
    /\ DA \in statFail
    /\ DA \in StoredPaths(files)

\* C3: a sync_changes(root) run directly after a sync_changes(root), with no
\* filesystem change and no other store operation in between, computes nothing
\* to add, update or delete, and leaves the records and the full-text index
\* as the first run left them.
C3_SyncIdempotent ==
    [][(op.name = "sync_changes" /\ op'.name = "sync_changes" /\ op'.path = op.path)
       => /\ sync_plan(CurDB, op.path).to_add_or_update = <<>>
          /\ sync_plan(CurDB, op.path).deleted_paths = {}
          /\ files' = files
          /\ fts' = fts]_vars

\* C3 witness: the second of two consecutive syncs of one root has run and
\* wrote nothing, over a store that holds the file's record at its live mtime
C3_Witness ==
    /\ op.name = "sync_changes" /\ op.again
    /\ ~op.wrote
    /\ \E r \in files : r.path = DA /\ r.mtime = MaxMtime /\ fs[DA].mtime = MaxMtime

\* C4: in every committed state, the full-text entries under a stored record's
\* id are exactly those of the record's current name, and no full-text entry
\* is left under the id of a record that is gone.
C4_FullTextInvariant ==
    /\ \A r \in files : {e \in fts : e[1] = r.id} = {<<r.id, t>> : t \in Tokens(r.name)}
    /\ \A e \in fts : \E r \in files : r.id = e[1]

\* C5: in sync_changes(root), a stored path whose live mtime is within 1 second
\* of the stored mtime (exactly 1 included) is not queued as an update and its
\* record is left as it is; one that differs by more than 1 second is queued
\* and its record, under the same id, then carries the live mtime.
C5_MtimeTolerance ==
    [][\A root \in Roots :
          (op'.name = "sync_changes" /\ op'.path = root /\ ~op'.failed)
          => \A r \in files :
                (Below(r.path, root) /\ StatOk(r.path))
                => IF Abs(fs[r.path].mtime - r.mtime) <= 1
                   THEN /\ r.path \notin PathsOf(sync_plan(CurDB, root).to_add_or_update, "upd")
                        /\ r \in files'
                   ELSE /\ r.path \in PathsOf(sync_plan(CurDB, root).to_add_or_update, "upd")
                        /\ \E n \in files' : /\ n.id = r.id
                                             /\ n.path = r.path
                                             /\ n.mtime = fs[r.path].mtime]_vars

\* C5 witness: a sync has run over a stored file whose live mtime is exactly
\* 1 second away from the stored one, and the stored one is still there
C5_Witness ==
    /\ op.name = "sync_changes" /\ op.path = D
    /\ StatOk(DA)
    /\ \E r \in files : r.path = DA /\ Abs(fs[DA].mtime - r.mtime) = 1

\* C6: when a statement of add_documents_batch raises, nothing of the batch
\* survives: the records and the full-text entries after the call are those
\* from before the call.
C6_BatchAtomic ==
    [][op'.failed => (files' = files /\ fts' = fts)]_vars

\* C6 witness: a batch write has raised on a store that holds records
C6_Witness ==
    /\ op.failed
    /\ op.name = "scan_directory"
    /\ files # {}

\* C7: a scan or sync whose batch write raised and was rolled back does not
\* tell the status sink that it completed.
C7_FailureSurfaced ==
    (op.failed /\ op.name \in {"scan_directory", "sync_changes", "sync_all_paths"})
    => op.sink \cap {"scan_done", "sync_done", "sync_all_done"} = {}

\* C8: after scan_directory(root) has handed its batch to add_documents_batch
\* and reported completion, every path of the batch is stored with the batch's
\* name, type, size and mtime, whether the path was stored before or not.
C8_BatchUpserts ==
    (op.name = "scan_directory" /\ "scan_done" \in op.sink)
    => \A i \in 1..Len(ScanDocs(op.path)) :
          \E r \in files : /\ r.path  = ScanDocs(op.path)[i].path
                           /\ r.name  = ScanDocs(op.path)[i].name
                           /\ r.type  = ScanDocs(op.path)[i].type
                           /\ r.size  = ScanDocs(op.path)[i].size
                           /\ r.mtime = ScanDocs(op.path)[i].mtime

\* C9: no two records ever share a path, and right after add_document ran for
\* an existing path (a created or modified event) the one record at that path
\* carries the name, type, size and mtime it was given, every record of
\* another path being left as it was.
C9_UpsertUnique ==
    [][/\ \A a, b \in files' : a.path = b.path => a = b
       /\ \A p \in Mutable :
             (op'.name \in {"on_created", "on_modified"} /\ op'.path = p /\ Exists(p))
             => /\ \E r \in files' :
                      /\ r.path  = p
                      /\ r.name  = BaseName(p)
                      /\ r.type  = (IF p \in Dirs THEN "folder" ELSE "file")
                      /\ r.size  = (IF p \in Dirs THEN 0 ELSE fs[p].size)
                      /\ r.mtime = fs[p].mtime
                /\ \A r \in files : r.path # p => r \in files']_vars

\* C9 witness: a modified event has replaced the record of a file that was
\* stored already: the record is there with the live mtime under a new id,
\* the full-text entry of the row it replaced still being in the index
C9_Witness ==
    /\ op.name = "on_modified" /\ op.path = DA /\ op.wrote
    /\ \E r \in files : /\ r.path = DA
                        /\ r.mtime = fs[DA].mtime
                        /\ \E e \in fts : e[1] # r.id /\ e[2] = <<"n">>

\* C10: after remove_path(root), the registry no longer lists root, no record
\* is root or lies under root, and a search for any name or word of a name
\* returns no record located under root.
C10_RemoveRootCascade ==
    (op.name = "remove_path")
    => /\ \A i \in 1..Len(get_indexed_paths(indexed_paths)) :
             get_indexed_paths(indexed_paths)[i] # op.path
       /\ \A r \in files : ~UnderRoot(r.path, op.path)
       /\ \A q \in Queries :
             \A i \in 1..Len(search(CurDB, q, None).rows) :
                ~UnderRoot(search(CurDB, q, None).rows[i].path, op.path)

\* C10 witness: a root whose records were stored has been removed while the
\* records of the other root stay
C10_Witness ==
    /\ op.name = "remove_path" /\ op.path = D2 /\ op.wrote
    /\ D2 \notin indexed_paths
    /\ \E r \in files : r.path = DA

\* a query made of one word
SingleToken(q) == q # <<>> /\ \A i \in 1..Len(q) : IsAlnum(q[i])

\* the rows of a result list, as a set
RowsOf(rows) == {rows[i] : i \in 1..Len(rows)}

\* C11: search(q) for a one-word query q returns, each once and with the stored
\* path, name, type, size and mtime, exactly the stored records whose current
\* name has a token starting with q.
C11_SearchResultSet ==
    (op.name = "search" /\ op.limit = None /\ SingleToken(op.query))
    => /\ ~op.raised
       /\ \A i, j \in 1..Len(op.rows) : op.rows[i] = op.rows[j] => i = j
       /\ RowsOf(op.rows)
          = {[path |-> r.path, name |-> r.name, type |-> r.type,
              size |-> r.size, mtime |-> r.mtime] :
                r \in {x \in files : \E t \in Tokens(x.name), w \in Tokens(op.query) :
                                        StartsWith(t, w)}}

\* C12: a search with an empty or all-blank query returns the empty list,
\* raises no error and runs no statement against the store.
C12_BlankQuery ==
    (op.name \in {"search", "run_search"} /\ \A i \in 1..Len(op.query) : op.query[i] = " ")
    => /\ ~op.raised
       /\ op.rows = <<>>
       /\ ~op.ran

\* C13: search(query, limit) with a limit given (0 included) returns at most
\* limit rows, and they are the first rows of what the search without a limit
\* returns.
C13_SearchLimit ==
    (op.name = "search" /\ op.limit # None /\ ~op.raised)
    => /\ Len(op.rows) <= op.limit[1]
       /\ op.rows = SubSeq(search(CurDB, op.query, None).rows, 1, Len(op.rows))

\* C14: clear_index() with the path omitted removes every record and every
\* root; clear_index(path) removes exactly the records that are path or below
\* path + "/" and leaves the registry and every other record unchanged.
C14_ClearSemantics ==
    [][(op'.name = "clear_index")
       => IF op'.path = None
          THEN files' = {} /\ indexed_paths' = {}
          ELSE /\ files' = {r \in files : ~UnderRoot(r.path, op'.path)}
               /\ indexed_paths' = indexed_paths]_vars

\* C15: scan_directory(root) on an empty store commits exactly one record for
\* the root directory and for every directory and file below it whose stat
\* succeeds, a directory as type folder with size 0, a file with its size, each
\* with its live mtime; for an empty root that is the root's record alone.
C15_FullScan ==
    [][\A root \in Roots :
          (op'.name = "scan_directory" /\ op'.path = root /\ files = {} /\ IsDir(root))
          => /\ ~op'.failed
             /\ StoredPaths(files') = {p \in Paths : UnderRoot(p, root) /\ StatOk(p)}
             /\ Cardinality(files') = Cardinality(StoredPaths(files'))
             /\ \A r \in files' :
                   /\ r.type  = (IF r.path \in Dirs THEN "folder" ELSE "file")
                   /\ r.size  = (IF r.path \in Dirs THEN 0 ELSE fs[r.path].size)
                   /\ r.mtime = fs[r.path].mtime]_vars

\* C15 witness: the scan of an empty directory has left one record, the root
\* folder with size 0
C15_Witness ==
    /\ op.name = "scan_directory" /\ op.path = D /\ op.wrote
    /\ ~fs[DA].ex
    /\ \E r \in files : files = {r} /\ r.path = D /\ r.type = "folder" /\ r.size = 0

\* C16: after on_moved(src, dest) has been handled with dest on disk, no
\* record is at src, exactly one is at dest, with dest's base name and the
\* file's type and size, a search for the old name (as typed, or any word of it
\* the new name does not have) raises nothing and finds nothing, and a search
\* for a word only the new name has finds the one record at dest.
C16_MoveEvent ==
    (op.name = "on_moved" /\ Exists(op.dest))
    => /\ ~PathTaken(files, op.path)
       /\ Cardinality({r \in files : r.path = op.dest}) = 1
       /\ \A r \in files :
             r.path = op.dest => /\ r.name = BaseName(op.dest)
                                 /\ r.type = TypeOf(op.dest)
                                 /\ r.size = SizeOf(op.dest)
       /\ \A q \in {BaseName(op.path)}
                   \cup (Tokens(BaseName(op.path)) \ Tokens(BaseName(op.dest))) :
             /\ ~search(CurDB, q, None).raised
             /\ search(CurDB, q, None).rows = <<>>
       /\ \A q \in Tokens(BaseName(op.dest)) \ Tokens(BaseName(op.path)) :
             /\ Len(search(CurDB, q, None).rows) = 1
             /\ search(CurDB, q, None).rows[1].path = op.dest

\* C17: a created or modified event for a path that is gone at the re-stat is
\* dropped, the store staying as it was; for a path that is there, the record
\* at that path, and it alone, is written with the live type, size and mtime,
\* the records of every other path being left as they were.
C17_CreateModifyEvent ==
    [][\A p \in Mutable :
          (op'.name \in {"on_created", "on_modified"} /\ op'.path = p)
          => IF ~Exists(p)
             THEN files' = files /\ fts' = fts
             ELSE /\ {r \in files' : r.path # p} = {r \in files : r.path # p}
                  /\ Cardinality({r \in files' : r.path = p}) = 1
                  /\ \A r \in files' :
                        r.path = p => /\ r.type  = TypeOf(p)
                                      /\ r.size  = SizeOf(p)
                                      /\ r.mtime = fs[p].mtime]_vars

\* C17 witness: a modified event for a file that is gone has been dropped, the
\* file's record staying in the store
C17_Witness ==
    /\ op.name = "on_modified" /\ op.path = DA
    /\ ~fs[DA].ex
    /\ ~op.wrote
    /\ PathTaken(files, DA)

\* C18: sync_changes(root) for a root that is gone from the disk tells the
\* status sink so and deletes none of the records stored under root.
C18_MissingRoot ==
    [][\A root \in Roots :
          (op'.name = "sync_changes" /\ op'.path = root /\ ~fs[root].ex)
          => /\ "missing_root" \in op'.sink
             /\ \A r \in files : UnderRoot(r.path, root) => r \in files']_vars

\* C20: sync_changes(root) deletes and modifies only records that are root or
\* below root + "/": every record outside (for root "/d", those under "/d2")
\* is stored unchanged afterwards, whatever the tree under root holds.
C20_SyncFrame ==
    [][\A root \in Roots :
          (op'.name = "sync_changes" /\ op'.path = root)
          => \A r \in files : ~UnderRoot(r.path, root) => r \in files']_vars

\* C19: with the handling of watch events running between the walk and the
\* write of a sync_changes(root): the sync's batch is not rolled back, the sync
\* deletes no record of a path that is on disk, and whenever no sync is in
\* progress and no event is left in the queue, the stored paths below the
\* registered root are the paths on disk below it.
C19_ConcurrentSync ==
    [][/\ (op'.name = "sync_changes")
          => /\ ~op'.failed
             /\ \A r \in files : (fs[r.path].ex /\ Below(r.path, op'.path))
                                 => PathTaken(files', r.path)
       /\ \A root \in WatchRoots :
             (pending' = Idle /\ events' = <<>> /\ root \in indexed_paths')
             => {p \in StoredPaths(files') : Below(p, root)}
                = {p \in Paths : fs'[p].ex /\ Below(p, root)}]_vars

\* the full-text index T holds, under each id of F, the tokens of that
\* record's name and nothing else
FullTextClean(F, T) ==
    /\ \A r \in F : {e \in T : e[1] = r.id} = {<<r.id, t>> : t \in Tokens(r.name)}
    /\ \A e \in T : \E r \in F : r.id = e[1]

\* C21: when add_document (a created or modified event) replaces the record of
\* a path that is stored already, on a store whose full-text index is clean,
\* the index is clean afterwards too: no full-text entry is left under the id
\* of the replaced row, every entry belongs to a live record's current name.
C21_NoStaleAfterReplace ==
    [][\A p \in Mutable :
          (/\ op'.name \in {"on_created", "on_modified"}
           /\ op'.path = p
           /\ Exists(p)
           /\ PathTaken(files, p)
           /\ FullTextClean(files, fts))
          => FullTextClean(files', fts')]_vars

\* C22: the id of a path's record does not change while the path stays
\* stored: whatever operation runs (a sync that updates the record, a modified
\* event's upsert), a path stored before and after it has the same id.
C22_StableId ==
    [][\A r \in files : \A n \in files' : n.path = r.path => n.id = r.id]_vars

\* the part of C22 about sync_changes and sync_all_paths alone
SyncKeepsIds ==
    [][(op'.name \in {"sync_changes", "sync_all_paths"})
       => \A r \in files : \A n \in files' : n.path = r.path => n.id = r.id]_vars

\* C23: in every state, every stored record of type folder has size 0,
\* whichever writer stored it: scan_directory, add_path, sync_changes or a
\* watch event.
C23_FolderSize ==
    \A r \in files : r.type = "folder" => r.size = 0

\* the record the code stores for an entry it has stat'ed: base name, live
\* type, size (0 for a folder) and mtime
LiveRecord(r, p) ==
    /\ r.path = p
    /\ r.name = BaseName(p)
    /\ r.type = TypeOf(p)
    /\ r.size = SizeOf(p)
    /\ r.mtime = fs[p].mtime

\* C24: a stat that fails for some entries does not abort a walk.  A
\* scan_directory(root) or sync_changes(root) run while stats fail reports
\* completion and creates no record for an entry whose stat fails.  Every
\* entry below root whose stat succeeds is processed as without a failure: a
\* scan whose write is not rolled back stores its live record; a sync stores
\* the live record of one that was not stored, updates under its id one whose
\* mtime moved by more than the tolerance, and leaves any other as it was.
C24_StatFailureSkipped ==
    [][\A root \in WatchRoots :
          /\ (op'.name = "scan_directory" /\ op'.path = root /\ IsDir(root))
             => /\ "scan_done" \in op'.sink
                /\ \A p \in statFail : PathTaken(files', p) => PathTaken(files, p)
                /\ ~op'.failed
                   => \A p \in Paths :
                         (UnderRoot(p, root) /\ StatOk(p))
                         => \E r \in files' : LiveRecord(r, p)
          /\ (op'.name = "sync_changes" /\ op'.path = root /\ IsDir(root))
             => /\ "sync_done" \in op'.sink
                /\ ~op'.failed
                /\ \A p \in statFail : PathTaken(files', p) => PathTaken(files, p)
                /\ \A p \in Paths :
                      (Below(p, root) /\ StatOk(p))
                      => IF ~PathTaken(files, p)
                         THEN \E r \in files' : LiveRecord(r, p)
                         ELSE \A r \in files :
                                 r.path = p
                                 => IF Abs(fs[p].mtime - r.mtime) > Tolerance
                                    THEN \E n \in files' : n.id = r.id /\ LiveRecord(n, p)
                                    ELSE r \in files']_vars

\* C24 witness: a scan of the root has completed while the stat of its first
\* file failed: the root, the file after it and the inner directory are
\* stored, the failing file is not
C24_Witness ==
    /\ op.name = "scan_directory" /\ op.path = D /\ ~op.failed /\ op.wrote
    /\ op.sink = {"scan_start", "scan_writing", "scan_done", "stat_error"}
    /\ DA \in statFail
    /\ StoredPaths(files) = {D, DM, DS}

\* C25: when the store is exactly what scan_directory(root) leaves of an empty
\* store and sync_changes(root) runs next, nothing having changed on disk, the
\* sync inserts, updates and deletes nothing: records and full-text index stay
\* as they were, the record of the root folder included.
C25_ScanThenSyncNoop ==
    [][\A root \in Roots :
          (/\ op.name = "scan_directory" /\ op.path = root
           /\ op.wrote /\ ~op.failed
           /\ CurDB = scan_directory(DB({}, {}), root).db
           /\ op'.name = "sync_changes" /\ op'.path = root)
          => /\ files' = files
             /\ fts' = fts
             /\ PathTaken(files', root)]_vars

\* C26: the deletions and the writes one sync_changes call computed are
\* committed together or not at all.  When its batch write raises and is rolled
\* back, the deletions it issued before are rolled back with it: records and
\* full-text index are those from before the write.  When it does not raise,
\* every path it meant to delete is gone and every path it meant to insert is
\* stored.
C26_SyncAllOrNothing ==
    [][(op'.name = "sync_changes" /\ pending # Idle)
       => IF op'.failed
          THEN files' = files /\ fts' = fts
          ELSE /\ \A p \in pending.plan.deleted_paths : ~PathTaken(files', p)
               /\ \A p \in PathsOf(pending.plan.to_add_or_update, "new") :
                     PathTaken(files', p)]_vars

\* C26 witness: a sync's batch write has raised after the sync had deleted the
\* record of a file that is gone from the disk, and that record is stored
C26_Witness ==
    /\ op.name = "sync_changes" /\ op.failed /\ ~op.wrote
    /\ pending = Idle
    /\ \E r \in files : /\ ~fs[r.path].ex
                        /\ \A i \in 1..Len(events) : events[i].path # r.path

\* C27: in every state reached by add_path, remove_path, sync_all_paths and
\* the handling of watch events (an event queued before its root was removed
\* and handled after included), every stored record's path is a registered
\* root or lies under a registered root.
C27_RecordsUnderRoots ==
    \A r \in files : \E root \in indexed_paths : UnderRoot(r.path, root)

====
